---- MODULE Spec2Model ----
(***************************************************************************)
(* Model of the PSBT parser's serverless handler (src/src/main.rs):        *)
(* function_handler reads a JSON body, parses the network selector, calls  *)
(* parse_psbt and serialises the summary.  parse_psbt is a pure function   *)
(* and is modelled as the operator ParsePsbt; the handler's steps are the  *)
(* actions.  A Rust panic (unwrap on None/Err, index out of bounds,        *)
(* arithmetic overflow with overflow checks on) ends the invocation in     *)
(* pc = "aborted".                                                         *)
(*                                                                         *)
(* Options are modelled as sequences of length at most one: <<>> is None   *)
(* and <<x>> is Some(x).  u64 amounts are scaled down to WordBits bits.    *)
(***************************************************************************)
EXTENDS Integers, Sequences, FiniteSets, TLC

VARIABLES body, lambda_request, network, result, response, pc, panic_at

vars == <<body, lambda_request, network, result, response, pc, panic_at>>

(***************************************************************************)
(* Bounds of the model.                                                    *)
(***************************************************************************)
WordBits == 14
MaxInputs == 2
MaxOutputs == 2
MaxVout == 1

Modulus == 2 ^ WordBits

Some(x) == <<x>>
NoneVal == <<>>
IsSome(o) == Len(o) = 1
Opt(S) == {NoneVal} \cup {Some(x) : x \in S}

BoundedSeqs(S, lo, hi) == UNION {[1..k -> S] : k \in lo..hi}

(***************************************************************************)
(* Script-pubkeys: two standard templates and one non-standard script.     *)
(***************************************************************************)
Scripts == {"wpkh_a", "pkh_b", "nonstd"}

TxOut(s, v) == [script_pubkey |-> s, value |-> v]

\* Address::from_script: None for a script that matches no template.
AddressFromScript(script, net) ==
    IF script = "nonstd" THEN NoneVal
    ELSE Some([payload |-> script, network |-> net])

\* Address::to_string: the network decides the prefix (bech32 hrp for the
\* witness program, base58 version byte for the legacy hash).
AddressToString(addr) ==
    LET prefix ==
          IF addr.payload = "wpkh_a"
          THEN (CASE addr.network = "bitcoin" -> "bc1"
                  [] addr.network = "regtest" -> "bcrt1"
                  [] OTHER -> "tb1")
          ELSE (IF addr.network = "bitcoin" THEN "1" ELSE "m")
    IN  <<prefix, addr.payload>>

\* <str as FromStr for Network>::from_str
NetworkFromStr(s) ==
    IF s \in {"bitcoin", "testnet", "signet", "regtest"} THEN Some(s) ELSE NoneVal

(***************************************************************************)
(* UTXO resolution (the closure shared by the address and amount passes).  *)
(***************************************************************************)
\* Variant: an out-of-range index is clamped to the last output.
GetOutputClamped(outputs, vout) ==
    IF outputs = <<>> THEN NoneVal
    ELSE IF vout < Len(outputs) THEN Some(outputs[vout + 1])
    ELSE Some(outputs[Len(outputs)])

\* <[TxOut]>::get(index): an out-of-range index yields None.
GetOutput(outputs, vout) ==
    IF vout < Len(outputs) THEN Some(outputs[vout + 1]) ELSE NoneVal

\* Variant: the non-witness-UTXO is consulted first.
ResolveUtxoNonWitnessFirst(doc, index) ==
    LET prevout == doc.unsigned_tx.input[index].previous_output
        input   == doc.inputs[index]
        looked  == IF IsSome(input.non_witness_utxo)
                   THEN GetOutput(input.non_witness_utxo[1].output, prevout.vout)
                   ELSE NoneVal
    IN  IF IsSome(looked) THEN looked ELSE input.witness_utxo

\* input.witness_utxo.as_ref().or_else(|| input.non_witness_utxo.as_ref()?
\*     .output.get(prevout.vout as usize))
ResolveUtxo(doc, index) ==
    LET prevout == doc.unsigned_tx.input[index].previous_output
        input   == doc.inputs[index]
    IN  IF IsSome(input.witness_utxo) THEN input.witness_utxo
        ELSE IF ~IsSome(input.non_witness_utxo) THEN NoneVal
        ELSE GetOutput(input.non_witness_utxo[1].output, prevout.vout)

\* Iterator::filter_map over a sequence of Options: the Somes, in order.
RECURSIVE FilterSome(_)
FilterSome(opts) ==
    IF opts = <<>> THEN <<>>
    ELSE opts[1] \o FilterSome(Tail(opts))

RECURSIVE Dedup(_)
Dedup(seq) ==
    IF seq = <<>> THEN <<>>
    ELSE LET front == Dedup(SubSeq(seq, 1, Len(seq) - 1))
             last  == seq[Len(seq)]
         IN  IF \E k \in 1..Len(front) : front[k] = last THEN front
             ELSE Append(front, last)

\* Variant: repeated addresses are listed once.
InputAddressesDistinct(doc, net) ==
    LET mapped == [i \in 1..Len(doc.inputs) |->
                     IF IsSome(ResolveUtxo(doc, i))
                     THEN Some(AddressFromScript(ResolveUtxo(doc, i)[1].script_pubkey, net))
                     ELSE NoneVal]
        addrs == FilterSome(FilterSome(mapped))
    IN  Dedup([k \in 1..Len(addrs) |-> AddressToString(addrs[k])])

\* input_addresses: resolve, derive the address, drop unresolved inputs, drop
\* addressless scripts, render.
InputAddresses(doc, net) ==
    LET mapped == [i \in 1..Len(doc.inputs) |->
                     IF IsSome(ResolveUtxo(doc, i))
                     THEN Some(AddressFromScript(ResolveUtxo(doc, i)[1].script_pubkey, net))
                     ELSE NoneVal]
        optAddrs == FilterSome(mapped)
        addrs    == FilterSome(optAddrs)
    IN  [k \in 1..Len(addrs) |-> AddressToString(addrs[k])]

\* The values the amount pass feeds to sum(): those of the resolved inputs.
InputValues(doc) ==
    LET mapped == [i \in 1..Len(doc.inputs) |->
                     IF IsSome(ResolveUtxo(doc, i))
                     THEN Some(ResolveUtxo(doc, i)[1].value)
                     ELSE NoneVal]
    IN  FilterSome(mapped)

OutputValues(tx) == [k \in 1..Len(tx.output) |-> tx.output[k].value]

(***************************************************************************)
(* u64 arithmetic.  With overflow checks (debug profile) an overflow       *)
(* panics; without them (release profile) it wraps modulo 2^w.             *)
(***************************************************************************)
RECURSIVE SumFrom(_, _, _)
SumFrom(acc, vals, checks) ==
    IF acc.overflow \/ vals = <<>> THEN acc
    ELSE LET s == acc.val + vals[1]
         IN  IF s >= Modulus /\ checks
             THEN [overflow |-> TRUE, val |-> 0]
             ELSE SumFrom([overflow |-> FALSE, val |-> s % Modulus], Tail(vals), checks)

\* Iterator::sum::<u64>()
SumU64(vals, checks) == SumFrom([overflow |-> FALSE, val |-> 0], vals, checks)

\* u64 - u64
SubU64(a, b, checks) ==
    IF a < b /\ checks THEN [overflow |-> TRUE, val |-> 0]
    ELSE [overflow |-> FALSE, val |-> (a - b) % Modulus]

(***************************************************************************)
(* parse_psbt                                                              *)
(***************************************************************************)
Ok(v) == [kind |-> "ok", value |-> v]
Err(e) == [kind |-> "err", error |-> e]
Panic(line) == [kind |-> "panic", at |-> line]

\* psbt.clone().extract_tx(): the unsigned transaction; prevouts and outputs
\* are those of the global map.
ExtractTx(doc) == doc.unsigned_tx

\* tx.txid(): a digest of the transaction's inputs and outputs.
Txid(tx) == <<"txid", tx.input, tx.output>>

\* Variant: the last output is taken for the primary one.
PrimaryOutputLast(tx) == tx.output[Len(tx.output)]

\* let output = &tx.output[0];
PrimaryOutput(tx) == tx.output[1]

\* for output in tx.output { ... from_script(..).unwrap() ... push }
PayToInfo(tx, net) ==
    [k \in 1..Len(tx.output) |->
        [amount |-> tx.output[k].value,
         pay_to |-> AddressToString(AddressFromScript(tx.output[k].script_pubkey, net)[1])]]

AllOutputsRepresentable(tx, net) ==
    \A k \in 1..Len(tx.output) : IsSome(AddressFromScript(tx.output[k].script_pubkey, net))

ParsePsbt(base64_psbt, network_opt, checks) ==
    LET net == IF IsSome(network_opt) THEN network_opt[1] ELSE "bitcoin"
    IN
    IF base64_psbt.enc = "bad_base64" THEN Err("base64 decode")
    ELSE IF base64_psbt.enc = "bad_format" THEN Err("psbt deserialize")
    ELSE
    LET doc == base64_psbt.doc
        tx  == ExtractTx(doc)
        txid == Txid(tx)
        input_addresses == InputAddresses(doc, net)
    IN
    IF Len(tx.output) = 0 THEN Panic(88)
    ELSE
    LET output == PrimaryOutput(tx)
        address == AddressFromScript(output.script_pubkey, net)
    IN
    IF ~IsSome(address) THEN Err("Invalid output address")
    ELSE
    LET send_address == AddressToString(address[1])
        total_amount == output.value
        input_amount == SumU64(InputValues(doc), checks)
    IN
    IF input_amount.overflow THEN Panic(115)
    ELSE
    LET output_amount == SumU64(OutputValues(tx), checks)
    IN
    IF output_amount.overflow THEN Panic(117)
    ELSE
    LET fee == SubU64(input_amount.val, output_amount.val, checks)
    IN
    IF fee.overflow THEN Panic(117)
    ELSE IF ~AllOutputsRepresentable(tx, net) THEN Panic(121)
    ELSE Ok([txid |-> txid,
             send_address |-> send_address,
             input_addresses |-> input_addresses,
             fee |-> fee.val,
             total_amount |-> total_amount,
             pay_to_info |-> PayToInfo(tx, net)])

(***************************************************************************)
(* Requests.  A request body is malformed JSON or carries the psbt string  *)
(* and an optional network selector.  The psbt string is not base64, is    *)
(* base64 of bytes that are no PSBT, or encodes a PSBT document.  The      *)
(* deserializer guarantees one per-input map per transaction input.       *)
(***************************************************************************)
WitnessUtxos == {TxOut("wpkh_a", 10000), TxOut("nonstd", 500)}

PrevTxs == {[output |-> <<>>],
            [output |-> <<TxOut("pkh_b", 9000)>>],
            [output |-> <<TxOut("pkh_b", 500), TxOut("wpkh_a", 9000)>>]}

OutCatalogue == {TxOut("pkh_b", 9000), TxOut("wpkh_a", 500), TxOut("nonstd", 500)}

PsbtInput == [witness_utxo : Opt(WitnessUtxos), non_witness_utxo : Opt(PrevTxs)]
TxIn == [previous_output : [vout : 0..MaxVout]]

MkDoc(txins, psbtins, outs) ==
    [unsigned_tx |-> [input |-> txins, output |-> outs], inputs |-> psbtins]

\* The output lists that every shape of input is paired with.
OutputsSmall == {<<>>,
                 <<TxOut("pkh_b", 9000)>>,
                 <<TxOut("pkh_b", 9000), TxOut("wpkh_a", 500)>>,
                 <<TxOut("nonstd", 500)>>,
                 <<TxOut("wpkh_a", 500), TxOut("nonstd", 500)>>}

\* The inputs that every list of outputs is paired with.
InputsSmall ==
    {<<[previous_output |-> [vout |-> 0]],
       [witness_utxo |-> Some(TxOut("wpkh_a", 10000)), non_witness_utxo |-> NoneVal]>>,
     <<[previous_output |-> [vout |-> 0]],
       [witness_utxo |-> NoneVal, non_witness_utxo |-> Some([output |-> <<TxOut("pkh_b", 9000)>>])]>>,
     <<[previous_output |-> [vout |-> 0]],
       [witness_utxo |-> NoneVal, non_witness_utxo |-> NoneVal]>>}

Selectors == Opt({"bitcoin", "mainnet", "testnet", "signet", "regtest", "lightning"})

Encoded(doc) == [enc |-> "psbt", doc |-> doc]
NotBase64 == [enc |-> "bad_base64"]
NotPsbt == [enc |-> "bad_format"]

Request(p, n) == [malformed |-> FALSE, psbt |-> p, network |-> n]
MalformedBody == [malformed |-> TRUE]

SelectorsSmall == {NoneVal, Some("testnet")}

\* The request bodies of the model: the malformed one, the undecodable
\* strings, every list of outputs with a few inputs under every selector,
\* and every shape of input with a few output lists.
InitBody ==
    \/ body = MalformedBody
    \/ \E p \in {NotBase64, NotPsbt}, n \in Selectors : body = Request(p, n)
    \/ \E i \in InputsSmall, o \in BoundedSeqs(OutCatalogue, 0, MaxOutputs), n \in Selectors :
          body = Request(Encoded(MkDoc(<<i[1]>>, <<i[2]>>, o)), n)
    \/ \E k \in 1..MaxInputs :
          \E ti \in [1..k -> TxIn], pi \in [1..k -> PsbtInput],
             o \in OutputsSmall, n \in SelectorsSmall :
               body = Request(Encoded(MkDoc(ti, pi, o)), n)

(***************************************************************************)
(* function_handler                                                        *)
(***************************************************************************)
Init ==
    /\ InitBody
    /\ lambda_request = NoneVal
    /\ network = NoneVal
    /\ result = NoneVal
    /\ response = NoneVal
    /\ pc = "start"
    /\ panic_at = 0

Abort(line) ==
    /\ pc' = "aborted"
    /\ panic_at' = line

\* lambda_request.network.map(|n| n.parse().unwrap_or(Network::Testnet))
SelectNetwork(selector) ==
    IF ~IsSome(selector) THEN NoneVal
    ELSE IF IsSome(NetworkFromStr(selector[1])) THEN NetworkFromStr(selector[1])
    ELSE Some("testnet")

\* serde_json::from_slice(&body).unwrap(), then the network selector.
ReadRequest ==
    /\ pc = "start"
    /\ IF body.malformed
       THEN /\ Abort(159)
            /\ UNCHANGED <<body, lambda_request, network, result, response>>
       ELSE /\ lambda_request' = Some([psbt |-> body.psbt, network |-> body.network])
            /\ network' = SelectNetwork(body.network)
            /\ pc' = "request"
            /\ UNCHANGED <<body, result, response, panic_at>>

\* parse_psbt(&lambda_request.psbt, network): returns, or panics inside.
CallParsePsbt ==
    /\ pc = "request"
    /\ \E checks \in BOOLEAN :
         LET r == ParsePsbt(lambda_request[1].psbt, network, checks)
         IN  IF r.kind = "panic"
             THEN /\ Abort(r.at)
                  /\ UNCHANGED <<body, lambda_request, network, result, response>>
             ELSE /\ result' = Some(r)
                  /\ pc' = "parsed"
                  /\ UNCHANGED <<body, lambda_request, network, response, panic_at>>

\* LambdaResponse built from the summary and serialised.
LambdaResponse(v) ==
    [status |-> 200,
     body |-> [txid |-> v.txid,
               send_address |-> v.send_address,
               input_addresses |-> v.input_addresses,
               fee |-> v.fee,
               total_amount |-> v.total_amount,
               pay_to_info |-> v.pay_to_info]]

\* .unwrap() of parse_psbt's result, then the response.
Respond ==
    /\ pc = "parsed"
    /\ IF result[1].kind = "err"
       THEN /\ Abort(163)
            /\ UNCHANGED <<body, lambda_request, network, result, response>>
       ELSE /\ response' = Some(LambdaResponse(result[1].value))
            /\ pc' = "responded"
            /\ UNCHANGED <<body, lambda_request, network, result, panic_at>>

Next == ReadRequest \/ CallParsePsbt \/ Respond

Spec == Init /\ [][Next]_vars

(***************************************************************************)
(* Vocabulary of the properties.                                           *)
(***************************************************************************)
HasDoc == ~body.malformed /\ body.psbt.enc = "psbt"
ReqDoc == body.psbt.doc
ReqTx == ReqDoc.unsigned_tx

\* parse_psbt has been called and has ended (by returning or by panicking).
CallEnded == pc \in {"parsed", "responded"} \/ (pc = "aborted" /\ panic_at # 159)
ReturnedOk == IsSome(result) /\ result[1].kind = "ok"
ReturnedErr(e) == IsSome(result) /\ result[1].kind = "err" /\ result[1].error = e
Summary == result[1].value

\* The network parse_psbt encodes addresses for.
Net == IF IsSome(network) THEN network[1] ELSE "bitcoin"

RECURSIVE TrueSum(_)
TrueSum(vals) == IF vals = <<>> THEN 0 ELSE vals[1] + TrueSum(Tail(vals))

\* The specified resolver: the witness-UTXO if present, else the previous
\* transaction's output at the prevout index if there is one, else nothing.
SpecUtxo(doc, i) ==
    LET w == doc.inputs[i].witness_utxo
        p == doc.inputs[i].non_witness_utxo
        vout == doc.unsigned_tx.input[i].previous_output.vout
    IN  IF w # <<>> THEN w
        ELSE IF p # <<>> /\ vout + 1 <= Len(p[1].output) THEN <<p[1].output[vout + 1]>>
        ELSE <<>>

Indices(doc) == 1..Len(doc.inputs)
AllResolved(doc) == \A i \in Indices(doc) : SpecUtxo(doc, i) # <<>>
ResolvedTotal(doc) ==
    TrueSum([i \in Indices(doc) |->
               IF SpecUtxo(doc, i) # <<>> THEN SpecUtxo(doc, i)[1].value ELSE 0])
OutputTotal(doc) == TrueSum(OutputValues(doc.unsigned_tx))
Representable(script) == script # "nonstd"
ExpectedAddress(script) == AddressToString(AddressFromScript(script, Net)[1])

\* The outputs give no cause of failure: there is one, all have an address.
OutputsFine(doc) ==
    /\ Len(doc.unsigned_tx.output) >= 1
    /\ \A k \in 1..Len(doc.unsigned_tx.output) :
          Representable(doc.unsigned_tx.output[k].script_pubkey)
Summarisable(doc) == OutputsFine(doc) /\ AllResolved(doc)

(***************************************************************************)
(* C1..C5, C8: what the specification demands and the code does not do.    *)
(***************************************************************************)
\* C1: whenever parse_psbt returns a summary for a PSBT all of whose inputs
\* resolve, fee + sum of the output values = sum of the resolved input
\* values, as integers (no wrap-around).
C1_FeeExact ==
    (HasDoc /\ ReturnedOk /\ AllResolved(ReqDoc))
        => Summary.fee + OutputTotal(ReqDoc) = ResolvedTotal(ReqDoc)

\* C2: for a PSBT whose outputs total strictly more than its resolved inputs
\* (and that gives no other cause of failure), parse_psbt ends by returning
\* InvalidAmountError: no summary, no abort.
C2_InvalidAmount ==
    (HasDoc /\ CallEnded /\ Summarisable(ReqDoc)
        /\ OutputTotal(ReqDoc) > ResolvedTotal(ReqDoc))
        => ReturnedErr("InvalidAmountError")

\* C3: if some input cannot be resolved (in a PSBT whose outputs give no
\* cause of failure), parse_psbt returns IncompleteDataError and no summary.
C3_IncompleteData ==
    (HasDoc /\ CallEnded /\ OutputsFine(ReqDoc) /\ ~AllResolved(ReqDoc))
        => ReturnedErr("IncompleteDataError")

UnrepresentableMarker == <<"unrepresentable">>

\* C4: an output with no representable address, in a PSBT that is otherwise
\* summarisable (an output exists, every input resolves, the inputs cover the
\* outputs, no sum leaves the word), still gets a summary, and its pay_to is
\* the "unrepresentable" marker.
C4_UnrepresentableTolerated ==
    (/\ HasDoc /\ CallEnded
     /\ \E k \in 1..Len(ReqTx.output) : ~Representable(ReqTx.output[k].script_pubkey)
     /\ AllResolved(ReqDoc)
     /\ OutputTotal(ReqDoc) <= ResolvedTotal(ReqDoc)
     /\ ResolvedTotal(ReqDoc) < Modulus)
        => /\ ReturnedOk
           /\ Len(Summary.pay_to_info) = Len(ReqTx.output)
           /\ \A k \in 1..Len(ReqTx.output) :
                ~Representable(ReqTx.output[k].script_pubkey)
                    => Summary.pay_to_info[k].pay_to = UnrepresentableMarker

\* C5: no psbt string and no network selector makes the invocation abort:
\* parse_psbt returns, and the handler answers an error value.
C5_NeverAborts == ~body.malformed => pc # "aborted"

RecognizedSelectors == {"bitcoin", "mainnet", "testnet", "signet", "regtest"}

\* C8: a selector that names no recognized network makes the call fail: no
\* network is substituted for it and no summary or response is produced; and
\* with no selector the addresses are mainnet ones.
C8_UnknownNetwork ==
    /\ (~body.malformed /\ IsSome(body.network)
            /\ body.network[1] \notin RecognizedSelectors)
        => (network = NoneVal /\ ~ReturnedOk /\ response = NoneVal)
    /\ (~body.malformed /\ ~IsSome(body.network) /\ ReturnedOk)
        => Summary.send_address[1] \in {"bc1", "1"}

(***************************************************************************)
(* C6, C7, C9, C10: what the code does as specified.                       *)
(***************************************************************************)
HasBoth(doc, i) ==
    IsSome(doc.inputs[i].witness_utxo) /\ IsSome(doc.inputs[i].non_witness_utxo)

\* The document without the non-witness-UTXO of the inputs that have both.
StripNonWitness(doc) ==
    [doc EXCEPT !.inputs =
        [i \in Indices(doc) |->
            IF HasBoth(doc, i)
            THEN [doc.inputs[i] EXCEPT !.non_witness_utxo = NoneVal]
            ELSE doc.inputs[i]]]

FeeOf(inputTotal, doc) == (inputTotal - OutputTotal(doc)) % Modulus

WitnessAddresses(doc) ==
    LET Shown(i) == Representable(doc.inputs[i].witness_utxo[1].script_pubkey)
        idx == SelectSeq([i \in Indices(doc) |-> i], Shown)
    IN  [k \in 1..Len(idx) |->
            ExpectedAddress(doc.inputs[idx[k]].witness_utxo[1].script_pubkey)]

\* C6: in a returned summary, an input that carries both a witness-UTXO and
\* a non-witness-UTXO counts with the witness-UTXO's script and value: the
\* addresses and the fee are those of the same PSBT without these inputs'
\* non-witness-UTXOs, and, when every input has a witness-UTXO, those of the
\* witness-UTXOs alone.
C6_WitnessPreferred ==
    (HasDoc /\ ReturnedOk) =>
        LET stripped == StripNonWitness(ReqDoc)
        IN  /\ Summary.input_addresses = InputAddresses(stripped, Net)
            /\ Summary.fee = FeeOf(TrueSum(InputValues(stripped)), ReqDoc)
            /\ (\A i \in Indices(ReqDoc) : IsSome(ReqDoc.inputs[i].witness_utxo))
                 => /\ Summary.input_addresses = WitnessAddresses(ReqDoc)
                    /\ Summary.fee =
                         FeeOf(TrueSum([i \in Indices(ReqDoc) |->
                                   ReqDoc.inputs[i].witness_utxo[1].value]), ReqDoc)

\* A summary was returned for a PSBT with an input whose witness-UTXO and
\* non-witness-UTXO output at the prevout index differ in script and value.
C6_Witness ==
    /\ HasDoc /\ ReturnedOk
    /\ \E i \in Indices(ReqDoc) :
         /\ HasBoth(ReqDoc, i)
         /\ LET outs == ReqDoc.inputs[i].non_witness_utxo[1].output
                vout == ReqTx.input[i].previous_output.vout
                w    == ReqDoc.inputs[i].witness_utxo[1]
            IN  /\ vout < Len(outs)
                /\ outs[vout + 1].script_pubkey # w.script_pubkey
                /\ outs[vout + 1].value # w.value
                /\ Representable(outs[vout + 1].script_pubkey)
                /\ Representable(w.script_pubkey)

\* Input i has no witness-UTXO and a previous transaction with too few outputs.
GapInput(doc, i) ==
    /\ ~IsSome(doc.inputs[i].witness_utxo)
    /\ IsSome(doc.inputs[i].non_witness_utxo)
    /\ Len(doc.inputs[i].non_witness_utxo[1].output)
         <= doc.unsigned_tx.input[i].previous_output.vout

Without(seq, i) == [k \in 1..(Len(seq) - 1) |-> IF k < i THEN seq[k] ELSE seq[k + 1]]

\* The document without input i.
DropInput(doc, i) ==
    [unsigned_tx |-> [input |-> Without(doc.unsigned_tx.input, i),
                      output |-> doc.unsigned_tx.output],
     inputs |-> Without(doc.inputs, i)]

\* The document whose input i has no UTXO data at all.
ClearInput(doc, i) ==
    [doc EXCEPT !.inputs[i] = [witness_utxo |-> NoneVal, non_witness_utxo |-> NoneVal]]

\* C7: an input without witness-UTXO whose previous transaction has no
\* output at the prevout index contributes nothing and disturbs nothing: a
\* returned summary has the addresses and the fee of the PSBT without that
\* input, and an abort is one that the same PSBT with no UTXO data on that
\* input produces at the same place.
C7_GapIsLocal ==
    HasDoc =>
        \A i \in Indices(ReqDoc) : GapInput(ReqDoc, i) =>
            /\ ReturnedOk =>
                 /\ Summary.input_addresses = InputAddresses(DropInput(ReqDoc, i), Net)
                 /\ Summary.fee = FeeOf(TrueSum(InputValues(DropInput(ReqDoc, i))), ReqDoc)
            /\ (pc = "aborted" /\ panic_at # 163) =>
                 \E checks \in BOOLEAN :
                    LET r == ParsePsbt(Encoded(ClearInput(ReqDoc, i)), network, checks)
                    IN  r.kind = "panic" /\ r.at = panic_at

\* A summary was returned for a PSBT with a gap input whose previous
\* transaction has outputs, next to an input that resolves.
C7_Witness ==
    /\ HasDoc /\ ReturnedOk
    /\ \E i, j \in Indices(ReqDoc) :
         /\ i # j
         /\ GapInput(ReqDoc, i)
         /\ Len(ReqDoc.inputs[i].non_witness_utxo[1].output) >= 1
         /\ SpecUtxo(ReqDoc, j) # <<>>
         /\ Representable(SpecUtxo(ReqDoc, j)[1].script_pubkey)

\* C9: in a returned summary, input_addresses lists, in input order, the
\* address of each input that resolves to a UTXO whose script has an address:
\* the other inputs leave no entry, duplicates stay, and the list is no longer
\* than the input list.
C9_InputAddresses ==
    (HasDoc /\ ReturnedOk) =>
        LET Shown(i) == /\ SpecUtxo(ReqDoc, i) # <<>>
                        /\ Representable(SpecUtxo(ReqDoc, i)[1].script_pubkey)
            idx == SelectSeq([i \in Indices(ReqDoc) |-> i], Shown)
        IN  /\ Len(Summary.input_addresses) = Len(idx)
            /\ Len(Summary.input_addresses) <= Len(ReqDoc.inputs)
            /\ \A k \in 1..Len(idx) :
                 Summary.input_addresses[k]
                    = ExpectedAddress(SpecUtxo(ReqDoc, idx[k])[1].script_pubkey)

\* A summary was returned whose two inputs resolve to the same address.
C9_Witness ==
    /\ HasDoc /\ ReturnedOk
    /\ Len(ReqDoc.inputs) = 2
    /\ Len(Summary.input_addresses) = 2
    /\ Summary.input_addresses[1] = Summary.input_addresses[2]

\* One witness-UTXO input of 10,000 sats, outputs of 9,000 and 500 sats.
ScenarioDoc ==
    MkDoc(<<[previous_output |-> [vout |-> 0]]>>,
          <<[witness_utxo |-> Some(TxOut("wpkh_a", 10000)), non_witness_utxo |-> NoneVal]>>,
          <<TxOut("pkh_b", 9000), TxOut("wpkh_a", 500)>>)

\* C10: in a returned summary, pay_to_info has one entry per output of the
\* unsigned transaction, in order, with the output's value and address, and
\* send_address and total_amount are those of output 0; the scenario PSBT
\* yields fee 500, total_amount 9000 and two entries.
C10_PayToInfo ==
    /\ (HasDoc /\ ReturnedOk) =>
          /\ Len(Summary.pay_to_info) = Len(ReqTx.output)
          /\ \A k \in 1..Len(ReqTx.output) :
                /\ Summary.pay_to_info[k].amount = ReqTx.output[k].value
                /\ Summary.pay_to_info[k].pay_to
                      = ExpectedAddress(ReqTx.output[k].script_pubkey)
          /\ Summary.send_address = Summary.pay_to_info[1].pay_to
          /\ Summary.total_amount = Summary.pay_to_info[1].amount
          /\ Summary.total_amount = ReqTx.output[1].value
    /\ (HasDoc /\ CallEnded /\ ReqDoc = ScenarioDoc) =>
          /\ ReturnedOk
          /\ Summary.fee = 500
          /\ Summary.total_amount = 9000
          /\ Len(Summary.pay_to_info) = 2

\* The scenario PSBT was summarised.
C10_Witness == HasDoc /\ ReturnedOk /\ ReqDoc = ScenarioDoc

====
